---------------------------- MODULE Spec2Model ----------------------------
(***************************************************************************)
(* Model of the first-person gallery's PlayerController                    *)
(* (src/unnamed/part_000, lines 7-220) together with the event wiring of   *)
(* main.js (setupEventListeners, onKeyDown, onKeyUp, animate) and the      *)
(* browser's pointer-capture service that answers requestPointerLock /     *)
(* exitPointerLock.                                                        *)
(*                                                                         *)
(* Every browser event is one action: the action runs all listeners that   *)
(* are registered for the event, in registration order, to completion      *)
(* (JavaScript is single threaded, so nothing interleaves with a           *)
(* dispatch).  Handlers are written as operators that transform a record   *)
(* of the controller's fields, so that a dispatch is the composition of    *)
(* its handlers.                                                           *)
(*                                                                         *)
(* Numbers.  Lengths are fixed point, Scale units per world unit.  Yaw is  *)
(* counted in quarter turns, and a pointer delta is counted in the number  *)
(* of pixels that rotationSpeed turns into a quarter turn, so that sin and *)
(* cos are exact.  The yaw is a JavaScript number, an IEEE double: a sum   *)
(* is rounded to the nearest number with a 53-bit significand, ties to the *)
(* even one.  The model keeps the rounding and scales the significand      *)
(* down to Mantissa, so that the sums that are not representable lie       *)
(* within a few quarter turns.                                             *)
(*                                                                         *)
(* The page of main.js is modelled with it: the hover pass and the click   *)
(* pass over the ray's intersections, the artworks' hover state            *)
(* (src/unnamed/part_001), the title/artist/info-panel regions and the     *)
(* auto-hide timer.  Time is counted in seconds.                           *)
(*                                                                         *)
(* The audio manager (src/src/AudioManager.js) is modelled with it: the    *)
(* first interaction that creates the audio context and starts the load,   *)
(* the fallback timer, the loader's callbacks and the mute button.  The    *)
(* artworks' placement on the circle uses sines in thousandths.            *)
(***************************************************************************)
EXTENDS Integers, Sequences, FiniteSets

\* ------------------------------------------------------------------ bounds
MaxPromises == 4
MaxQueue == 3
MaxYaw == 1
MaxFrames == 1
MaxTurn == 5        \* the yaw the look specification lets the pointer reach
NumArtworks == 2    \* the artworks hung, the first ones of ARTWORKS
MaxHits == 2        \* the intersections along one ray
MaxTimers == 2      \* the timer ids the browser hands out

\* --------------------------------------------------------------- constants
moveSpeed == 100                          \* 0.1 world units per update
Scale == 10 * moveSpeed                   \* one world unit
DiagStep == (moveSpeed * 707) \div 1000   \* moveSpeed / sqrt(2)
StartX == 0
StartZ == 5 * Scale
Mantissa == 4                             \* significands are 0 .. Mantissa - 1
InfoDelay == 5                            \* 5000 ms
radius == 15                              \* world units
NumPaths == 6                             \* possiblePaths.length
NoLoad == 0 - 1                           \* no request of the loader in flight
HangHeight == (16 * Scale) \div 10        \* 1.6
originalScale == Scale                    \* 1
highlightScale == (105 * Scale) \div 100  \* 1.05

\* main.js, ARTWORKS
ARTWORKS ==
  << [title |-> "The Death of Socrates", artist |-> "Jacques-Louis David"],
     [title |-> "Starry Night", artist |-> "Vincent Van Gogh"],
     [title |-> "The Great Wave off Kanagawa", artist |-> "Katsushika Hokusai"],
     [title |-> "Effect of Spring, Giverny", artist |-> "Claude Monet"],
     [title |-> "Mount Corcoran", artist |-> "Albert Bierstadt"],
     [title |-> "A Sunday on La Grande Jatte", artist |-> "George Seurat"] >>

\* the indices of state.artworks
Artworks == 0 .. NumArtworks - 1

\* ARTWORKS[k]
Data(k) == ARTWORKS[k + 1]

VARIABLES
  isLocked,         \* this.isLocked
  moveForward,      \* this.moveForward
  moveBackward,     \* this.moveBackward
  moveLeft,         \* this.moveLeft
  moveRight,        \* this.moveRight
  yaw,              \* this.yaw || 0, in quarter turns
  position,         \* this.camera.position (x, z); y is constant
  target,           \* this.target (x, z)
  subs,             \* listeners of initEventListeners still attached
  lockListeners,    \* onLock closures attached to the canvas
  unlockListeners,  \* onUnlock closures attached to the document, in order
  promises,         \* the deferred results handed out by lock() and unlock()
  blocker,          \* #blocker style.display
  crosshair,        \* #crosshair style.display
  pointerLockElement, \* document.pointerLockElement === this.domElement
  envQueue,         \* requests the browser has accepted and not yet answered
  reqSupported,     \* the canvas has some requestPointerLock
  exitSupported,    \* the document has some exitPointerLock
  frames,           \* animation frames run so far
  idleFrames,       \* history: those of them that ran update() while
                    \* Unlocked with a movement flag set
  justLocked,       \* history: the controller has become Locked and has
                    \* handled no movement key and run no update since
  hovered,          \* the artworks whose isHovered is true
  scale,            \* group.scale of each artwork (uniform), 1 being Scale
  emissive,         \* frame.material.emissive of each artwork
  placed,           \* group.position of each artwork
  cursor,           \* document.body.style.cursor
  elements,         \* the regions the page has, of title, artist, info-panel
  titleText,        \* #title textContent
  artistText,       \* #artist textContent
  panelVisible,     \* #info-panel carries the class visible
  infoTimeout,      \* state.infoTimeout: a timer id, or 0 for null
  timers,           \* the browser's pending timers, each with the seconds left
  uncaught,         \* exceptions thrown out of the program's code
  sinceSelect,      \* history: seconds since showArtworkInfo last displayed
                    \* an artwork, -1 before the first
  audioContext,     \* this.audioContext and this.backgroundMusic exist
  buffer,           \* this.backgroundMusic.buffer is set
  loadPath,         \* the index of the path the loader is fetching, or NoLoad
  webPlaying,       \* this.backgroundMusic has been started and not paused
  html5Playing,     \* this.html5Audio has been started and not paused
  html5Audio,       \* the page has the element background-music
  isMuted,          \* this.isMuted
  useHtml5Fallback, \* this.useHtml5Fallback
  muteLabel,        \* the text of this.muteButton
  fallbackTimer,    \* the timer of initializeAudio is pending
  playThenable      \* what THREE.Audio.play() returns has a catch method

vars == <<isLocked, moveForward, moveBackward, moveLeft, moveRight, yaw,
          position, target, subs, lockListeners, unlockListeners, promises,
          blocker, crosshair, pointerLockElement, envQueue, reqSupported,
          exitSupported, frames, idleFrames, justLocked, hovered, scale,
          emissive, placed, cursor,
          elements, titleText, artistText, panelVisible,
          infoTimeout, timers, uncaught, sinceSelect,
          audioContext, buffer, loadPath, webPlaying, html5Playing, html5Audio,
          isMuted, useHtml5Fallback, muteLabel, fallbackTimer, playThenable>>

\* the controller, the document's listeners and the browser's capture
controlVars == <<isLocked, moveForward, moveBackward, moveLeft, moveRight,
                 yaw, position, target, subs, lockListeners, unlockListeners,
                 promises, blocker, crosshair, pointerLockElement, envQueue,
                 reqSupported, exitSupported, frames, idleFrames, justLocked>>

\* the page's variables that the program writes
pageVars == <<hovered, scale, emissive, placed, cursor, titleText, artistText, panelVisible,
              infoTimeout, timers, uncaught, sinceSelect>>

audioVars == <<audioContext, buffer, loadPath, webPlaying, html5Playing,
               html5Audio, isMuted, useHtml5Fallback, muteLabel,
               fallbackTimer, playThenable>>

\* ---------------------------------------------------------------- helpers
AllSubs == {"click", "keydown", "keyup", "mousemove",
            "pointerlockchange", "pointerlockerror"}

MoveCodes == {"KeyW", "ArrowUp", "KeyS", "ArrowDown",
              "KeyA", "ArrowLeft", "KeyD", "ArrowRight"}

KeyCodes == MoveCodes \cup {"Escape", "KeyM"}

Buttons == {0, 1}

Deltas == {-1, 1}

\* sin and cos of a yaw given in quarter turns
Sin(q) == CASE q % 4 = 0 -> 0
            [] q % 4 = 1 -> 1
            [] q % 4 = 2 -> 0
            [] q % 4 = 3 -> -1

Cos(q) == Sin(q + 1)

Abs(n) == IF n < 0 THEN -n ELSE n

\* the spacing of the representable numbers around the magnitude a
RECURSIVE Quantum(_)
Quantum(a) == IF a < Mantissa THEN 1 ELSE 2 * Quantum(a \div 2)

\* the result of an arithmetic operation whose exact value is n: the
\* nearest representable number, a tie going to the even significand
Fl(n) ==
  LET a  == Abs(n)
      q  == Quantum(a)
      lo == (a \div q) * q
      r  == a - lo
      m  == IF 2 * r < q THEN lo
            ELSE IF 2 * r > q THEN lo + q
            ELSE IF (a \div q) % 2 = 0 THEN lo ELSE lo + q
  IN IF n < 0 THEN -m ELSE m

\* The controller's mutable fields, the document's listener lists and the
\* browser's request queue, as one value that the handlers transform.
Cur == [isLocked |-> isLocked,
        moveForward |-> moveForward, moveBackward |-> moveBackward,
        moveLeft |-> moveLeft, moveRight |-> moveRight,
        yaw |-> yaw, position |-> position, target |-> target,
        subs |-> subs, lockListeners |-> lockListeners,
        unlockListeners |-> unlockListeners, promises |-> promises,
        blocker |-> blocker, crosshair |-> crosshair,
        pointerLockElement |-> pointerLockElement, envQueue |-> envQueue,
        justLocked |-> justLocked]

Commit(s) ==
  /\ Len(s.promises) <= MaxPromises
  /\ Len(s.envQueue) <= MaxQueue
  /\ isLocked' = s.isLocked
  /\ moveForward' = s.moveForward
  /\ moveBackward' = s.moveBackward
  /\ moveLeft' = s.moveLeft
  /\ moveRight' = s.moveRight
  /\ yaw' = s.yaw
  /\ position' = s.position
  /\ target' = s.target
  /\ subs' = s.subs
  /\ lockListeners' = s.lockListeners
  /\ unlockListeners' = s.unlockListeners
  /\ promises' = s.promises
  /\ blocker' = s.blocker
  /\ crosshair' = s.crosshair
  /\ pointerLockElement' = s.pointerLockElement
  /\ envQueue' = s.envQueue
  /\ justLocked' = (s.isLocked /\ (s.justLocked \/ ~isLocked))
  /\ UNCHANGED <<reqSupported, exitSupported>>

\* A deferred result.  calls counts the resolve()/reject() invocations made
\* on it.  Two fields are history: atLocked remembers this.isLocked at the
\* time of the call that created it, answer the browser's answer to the
\* request that call made ("none" while there is no answer).
NewPromise(kind, st, n, locked) ==
  [kind |-> kind, state |-> st, calls |-> n, atLocked |-> locked,
   answer |-> "none"]

Settle(p, st) ==
  [p EXCEPT !.state = IF p.state = "pending" THEN st ELSE p.state,
            !.calls = p.calls + 1]

\* ---------------------------------------------------- the browser's service
\* element.requestPointerLock(): the browser answers later, with a
\* pointerlockchange or a pointerlockerror event.
requestPointerLock(s, id) ==
  [s EXCEPT !.envQueue = Append(@, [kind |-> "request", id |-> id])]

\* document.exitPointerLock(): nothing to release when nothing is captured.
exitPointerLock(s, id) ==
  IF s.pointerLockElement
    THEN [s EXCEPT !.envQueue = Append(@, [kind |-> "exit", id |-> id])]
    ELSE s

\* ------------------------------------------------------- PlayerController
\* lock() as it would be if it set the state when called
lock_optimistic(s) ==
  IF reqSupported
    THEN LET id == Len(s.promises) + 1
             s1 == [s EXCEPT
                      !.isLocked = TRUE,
                      !.promises = Append(@, NewPromise("lock", "pending", 0,
                                                        s.isLocked)),
                      !.lockListeners = @ \cup {id}]
         IN requestPointerLock(s1, id)
    ELSE [s EXCEPT !.promises = Append(@, NewPromise("lock", "rejected", 1,
                                                     s.isLocked))]

\* lock() as it would be without the capability test
lock_unchecked(s) ==
  LET id == Len(s.promises) + 1
      s1 == [s EXCEPT
               !.promises = Append(@, NewPromise("lock", "pending", 0,
                                                 s.isLocked)),
               !.lockListeners = @ \cup {id}]
  IN requestPointerLock(s1, id)

lock(s) ==
  IF reqSupported
    THEN LET id == Len(s.promises) + 1
             s1 == [s EXCEPT
                      !.promises = Append(@, NewPromise("lock", "pending", 0,
                                                        s.isLocked)),
                      !.lockListeners = @ \cup {id}]
         IN requestPointerLock(s1, id)
    ELSE [s EXCEPT !.promises = Append(@, NewPromise("lock", "rejected", 1,
                                                     s.isLocked))]

unlock(s) ==
  IF exitSupported
    THEN LET id == Len(s.promises) + 1
             s1 == [s EXCEPT
                      !.promises = Append(@, NewPromise("unlock", "pending", 0,
                                                        s.isLocked)),
                      !.unlockListeners = Append(@, id)]
         IN exitPointerLock(s1, id)
    ELSE [s EXCEPT
            !.isLocked = FALSE,
            !.promises = Append(@, NewPromise("unlock", "resolved", 1,
                                              s.isLocked))]

\* the onLock closure of lock(), for the promise id
onLock(s, id) ==
  [s EXCEPT !.isLocked = TRUE,
            !.promises[id] = Settle(@, "resolved"),
            !.lockListeners = @ \ {id}]

\* the onUnlock closure of unlock(), for the promise id
onUnlock(s, id) ==
  [s EXCEPT !.isLocked = FALSE,
            !.promises[id] = Settle(@, "resolved"),
            !.unlockListeners = SelectSeq(@, LAMBDA j : j # id)]

onPointerlockChange(s) ==
  LET now == s.pointerLockElement
  IN IF s.isLocked # now
       THEN [s EXCEPT !.isLocked = now,
                      !.blocker = IF now THEN "none" ELSE "block",
                      !.crosshair = IF now THEN "block" ELSE "none"]
       ELSE [s EXCEPT !.isLocked = now]

onPointerlockError(s) == s

\* onKeyDown as it would be if it looked at the lock state first
onKeyDown_lockedOnly(s, code) ==
  IF ~s.isLocked /\ code # "Escape"
    THEN s
    ELSE CASE code \in {"KeyW", "ArrowUp"}    -> [s EXCEPT !.moveForward = TRUE]
           [] code \in {"KeyS", "ArrowDown"}  -> [s EXCEPT !.moveBackward = TRUE]
           [] code \in {"KeyA", "ArrowLeft"}  -> [s EXCEPT !.moveRight = TRUE]
           [] code \in {"KeyD", "ArrowRight"} -> [s EXCEPT !.moveLeft = TRUE]
           [] code = "Escape"                 -> unlock(s)
           [] OTHER                           -> s

onKeyDown(s, code) ==
  CASE code \in {"KeyW", "ArrowUp"}    -> [s EXCEPT !.moveForward = TRUE]
    [] code \in {"KeyS", "ArrowDown"}  -> [s EXCEPT !.moveBackward = TRUE]
    [] code \in {"KeyA", "ArrowLeft"}  -> [s EXCEPT !.moveRight = TRUE]
    [] code \in {"KeyD", "ArrowRight"} -> [s EXCEPT !.moveLeft = TRUE]
    [] code = "Escape"                 -> unlock(s)
    [] OTHER                           -> s

onKeyUp(s, code) ==
  CASE code \in {"KeyW", "ArrowUp"}    -> [s EXCEPT !.moveForward = FALSE]
    [] code \in {"KeyS", "ArrowDown"}  -> [s EXCEPT !.moveBackward = FALSE]
    [] code \in {"KeyA", "ArrowLeft"}  -> [s EXCEPT !.moveRight = FALSE]
    [] code \in {"KeyD", "ArrowRight"} -> [s EXCEPT !.moveLeft = FALSE]
    [] OTHER                           -> s

updateTarget(s) ==
  [s EXCEPT !.target = [x |-> s.position.x + Scale * Sin(s.yaw),
                        z |-> s.position.z + Scale * Cos(s.yaw)]]

\* onMouseMove as it would be with a turn that grows with the yaw
onMouseMove_accelerated(s, movementX) ==
  IF ~s.isLocked
    THEN s
    ELSE updateTarget([s EXCEPT !.yaw = Fl(s.yaw - movementX * (1 + Abs(s.yaw)))])

onMouseMove(s, movementX) ==
  IF ~s.isLocked
    THEN s
    ELSE updateTarget([s EXCEPT !.yaw = Fl(s.yaw - movementX)])

\* velocity.normalize().multiplyScalar(moveSpeed) of a vector whose
\* components are -1, 0 or 1
Normalized(v) ==
  IF v.x * v.x + v.z * v.z = 1
    THEN [x |-> v.x * moveSpeed, z |-> v.z * moveSpeed]
    ELSE [x |-> v.x * DiagStep, z |-> v.z * DiagStep]

Velocity(s) ==
  LET fx == Sin(s.yaw)
      fz == Cos(s.yaw)
      rx == Sin(s.yaw + 1)
      rz == Cos(s.yaw + 1)
      f  == (IF s.moveForward THEN 1 ELSE 0) - (IF s.moveBackward THEN 1 ELSE 0)
      r  == (IF s.moveRight THEN 1 ELSE 0) - (IF s.moveLeft THEN 1 ELSE 0)
  IN [x |-> f * fx + r * rx, z |-> f * fz + r * rz]

\* update as it would be with the two strafe flags the other way round
update_mirrored(s) ==
  LET m == [s EXCEPT !.moveLeft = s.moveRight, !.moveRight = s.moveLeft]
      v == Velocity(m)
  IN IF ~s.isLocked
       THEN s
       ELSE IF v.x * v.x + v.z * v.z > 0
              THEN updateTarget(
                     [s EXCEPT !.position =
                        [x |-> s.position.x + Normalized(v).x,
                         z |-> s.position.z + Normalized(v).z]])
              ELSE s

\* update as it would be without the early return
update_unguarded(s) ==
  LET v == Velocity(s)
  IN IF v.x * v.x + v.z * v.z > 0
       THEN updateTarget(
              [s EXCEPT !.position =
                 [x |-> s.position.x + Normalized(v).x,
                  z |-> s.position.z + Normalized(v).z]])
       ELSE s

\* update as it would be if it walked forward when no key is held
update_drift(s) ==
  IF ~s.isLocked
    THEN s
    ELSE LET w == Velocity(s)
             v == IF w.x * w.x + w.z * w.z > 0
                    THEN w
                    ELSE [x |-> Sin(s.yaw), z |-> Cos(s.yaw)]
         IN updateTarget(
              [s EXCEPT !.position =
                 [x |-> s.position.x + Normalized(v).x,
                  z |-> s.position.z + Normalized(v).z]])

update(s) ==
  IF ~s.isLocked
    THEN s
    ELSE LET v == Velocity(s)
         IN IF v.x * v.x + v.z * v.z > 0
              THEN updateTarget(
                     [s EXCEPT !.position =
                        [x |-> s.position.x + Normalized(v).x,
                         z |-> s.position.z + Normalized(v).z]])
              ELSE s

dispose(s) == unlock([s EXCEPT !.subs = {}])

\* ------------------------------------------------------ Artwork and main.js
\* The nodes a ray can hit.  type is userData.type, data the index of
\* userData.data in ARTWORKS, group the artwork whose group the node is a
\* child of (-1 where there is none).
Image(k) == [type |-> "artwork", data |-> k, group |-> k]

Frame(k) == [type |-> "none", data |-> -1, group |-> k]

Floor == [type |-> "none", data |-> -1, group |-> -1]

SceneNodes == {Image(k) : k \in Artworks} \cup {Frame(k) : k \in Artworks}
                \cup {Floor}

\* the results of intersectObjects: up to MaxHits nodes, nearest first
HitLists == UNION {[1 .. n -> SceneNodes] : n \in 0 .. MaxHits}

Elements == {"title", "artist", "info-panel"}

\* The page as one value that the handlers of main.js transform.
\* writes counts the times a handler sets an artwork's scale and tint.
Page == [hovered |-> hovered, scale |-> scale, emissive |-> emissive,
         placed |-> placed, writes |-> 0, cursor |-> cursor, elements |-> elements, titleText |-> titleText,
         artistText |-> artistText, panelVisible |-> panelVisible,
         infoTimeout |-> infoTimeout, timers |-> timers,
         uncaught |-> uncaught, sinceSelect |-> sinceSelect]

CommitPage(u) ==
  /\ \A t \in u.timers : t.id <= MaxTimers
  /\ hovered' = u.hovered
  /\ scale' = u.scale
  /\ emissive' = u.emissive
  /\ placed' = u.placed
  /\ cursor' = u.cursor
  /\ titleText' = u.titleText
  /\ artistText' = u.artistText
  /\ panelVisible' = u.panelVisible
  /\ infoTimeout' = u.infoTimeout
  /\ timers' = u.timers
  /\ uncaught' = u.uncaught
  /\ sinceSelect' = u.sinceSelect

\* sin and cos of t twelfths of a turn, in thousandths
SinTwelfth(t) ==
  <<0, 500, 866, 1000, 866, 500, 0, -500, -866, -1000, -866, -500>>[(t % 12) + 1]

CosTwelfth(t) == SinTwelfth(t + 3)

\* createArtwork with half a turn in place of the full turn
Place_halfTurn(index, total, r) ==
  [x |-> SinTwelfth((6 * index) \div total) * r,
   y |-> HangHeight,
   z |-> CosTwelfth((6 * index) \div total) * r]

\* the position createArtwork gives artwork index of total, for totals that
\* divide twelve
Place(index, total, r) ==
  [x |-> SinTwelfth((12 * index) \div total) * r,
   y |-> HangHeight,
   z |-> CosTwelfth((12 * index) \div total) * r]

\* setHighlight as it would be without the tests of isHovered
setHighlight_always(u, k, highlight) ==
  IF highlight
    THEN [u EXCEPT !.scale[k] = highlightScale,
                   !.emissive[k] = "0x333333",
                   !.hovered = @ \cup {k},
                   !.writes = @ + 1]
    ELSE [u EXCEPT !.scale[k] = originalScale,
                   !.emissive[k] = "0x000000",
                   !.hovered = @ \ {k},
                   !.writes = @ + 1]

\* Artwork.setHighlight of artwork k
setHighlight(u, k, highlight) ==
  IF highlight /\ k \notin u.hovered
    THEN [u EXCEPT !.scale[k] = highlightScale,
                   !.emissive[k] = "0x333333",
                   !.hovered = @ \cup {k},
                   !.writes = @ + 1]
    ELSE IF ~highlight /\ k \in u.hovered
           THEN [u EXCEPT !.scale[k] = originalScale,
                          !.emissive[k] = "0x000000",
                          !.hovered = @ \ {k},
                          !.writes = @ + 1]
           ELSE u

\* state.artworks.forEach(artwork => artwork.setHighlight(false))
RECURSIVE ResetHighlights(_, _)
ResetHighlights(u, ks) ==
  IF ks = {}
    THEN u
    ELSE LET k == CHOOSE i \in ks : \A j \in ks : i <= j
         IN ResetHighlights(setHighlight(u, k, FALSE), ks \ {k})

\* state.artworks.find(art => art.getGroup().children.some(...)): the first
\* artwork whose group holds the node, -1 for undefined
FindArtwork(node) ==
  IF \E k \in Artworks : node.group = k
    THEN CHOOSE k \in Artworks :
           node.group = k /\ \A j \in Artworks : node.group = j => k <= j
    ELSE -1

\* the loop of onPointerMove over the intersections: the artwork to
\* highlight, -1 when the loop ends without one
RECURSIVE HoverTarget(_)
HoverTarget(hits) ==
  IF hits = << >>
    THEN -1
    ELSE IF Head(hits).type = "artwork" /\ FindArtwork(Head(hits)) # -1
           THEN FindArtwork(Head(hits))
           ELSE HoverTarget(Tail(hits))

\* the smallest timer id not in use
FreshTimer(ts) ==
  CHOOSE i \in 1 .. MaxTimers + 1 :
    /\ \A t \in ts : t.id # i
    /\ \A j \in 1 .. MaxTimers + 1 : (\A t \in ts : t.id # j) => i <= j

\* showArtworkInfo as it would be if it left a pending timer alone
showArtworkInfo_stacking(u, title, artist) ==
  IF ~(Elements \subseteq u.elements)
    THEN u
    ELSE LET id == FreshTimer(u.timers)
         IN [u EXCEPT
               !.titleText = IF title # "" THEN title ELSE "Untitled",
               !.artistText = IF artist # "" THEN artist ELSE "Unknown Artist",
               !.panelVisible = TRUE,
               !.timers = @ \cup {[id |-> id, left |-> InfoDelay]},
               !.infoTimeout = id,
               !.sinceSelect = 0]

showArtworkInfo(u, title, artist) ==
  IF ~(Elements \subseteq u.elements)
    THEN u
    ELSE LET u1 == IF u.infoTimeout # 0
                     THEN [u EXCEPT
                             !.timers = {t \in @ : t.id # u.infoTimeout},
                             !.infoTimeout = 0]
                     ELSE u
             id == FreshTimer(u1.timers)
         IN [u1 EXCEPT
               !.titleText = IF title # "" THEN title ELSE "Untitled",
               !.artistText = IF artist # "" THEN artist ELSE "Unknown Artist",
               !.panelVisible = TRUE,
               !.timers = @ \cup {[id |-> id, left |-> InfoDelay]},
               !.infoTimeout = id,
               !.sinceSelect = 0]

\* the callback of the timer set by showArtworkInfo
hideInfo(u) == [u EXCEPT !.panelVisible = FALSE, !.infoTimeout = 0]

\* onPointerMove as it would be without the reset of the highlights
onPointerMove_noReset(u, locked, hits) ==
  IF ~locked
    THEN u
    ELSE LET k == HoverTarget(hits)
         IN IF k # -1
              THEN [setHighlight(u, k, TRUE) EXCEPT !.cursor = "pointer"]
              ELSE [u EXCEPT !.cursor = "default"]

\* onPointerMove as it would be without the test of the lock state
onPointerMove_unguarded(u, locked, hits) ==
  LET u1 == ResetHighlights(u, Artworks)
      k  == HoverTarget(hits)
  IN IF k # -1
       THEN [setHighlight(u1, k, TRUE) EXCEPT !.cursor = "pointer"]
       ELSE [u1 EXCEPT !.cursor = "default"]

\* onPointerMove as it would be if it looked at the nearest hit only
onPointerMove_nearest(u, locked, hits) ==
  IF ~locked
    THEN u
    ELSE LET u1 == ResetHighlights(u, Artworks)
             k  == IF hits # << >> /\ Head(hits).type = "artwork"
                     THEN FindArtwork(Head(hits))
                     ELSE -1
         IN IF k # -1
              THEN [setHighlight(u1, k, TRUE) EXCEPT !.cursor = "pointer"]
              ELSE [u1 EXCEPT !.cursor = "default"]

\* onPointerMove as it would be if it took the artwork of the first node
\* that lies in an artwork's group, tagged or not
onPointerMove_byGroup(u, locked, hits) ==
  IF ~locked
    THEN u
    ELSE LET u1 == ResetHighlights(u, Artworks)
             own == SelectSeq(hits, LAMBDA n : FindArtwork(n) # -1)
             k  == IF own # << >> THEN FindArtwork(Head(own)) ELSE -1
         IN IF k # -1
              THEN [setHighlight(u1, k, TRUE) EXCEPT !.cursor = "pointer"]
              ELSE [u1 EXCEPT !.cursor = "default"]

\* main.js onPointerMove; locked is state.player.isLocked, hits what
\* intersectObjects returns for the ray through the pointer, nearest first
onPointerMove(u, locked, hits) ==
  IF ~locked
    THEN u
    ELSE LET u1 == ResetHighlights(u, Artworks)
             k  == HoverTarget(hits)
         IN IF k # -1
              THEN [setHighlight(u1, k, TRUE) EXCEPT !.cursor = "pointer"]
              ELSE [u1 EXCEPT !.cursor = "default"]

\* the loop of handleArtworkClick over the intersections
RECURSIVE ClickWalk(_, _)
ClickWalk(u, hits) ==
  IF hits = << >>
    THEN u
    ELSE IF Head(hits).type = "artwork"
           THEN showArtworkInfo(u, Data(Head(hits).data).title,
                                Data(Head(hits).data).artist)
           ELSE ClickWalk(u, Tail(hits))

\* main.js handleArtworkClick; locked is state.player.isLocked, hits what
\* intersectObjects returns
handleArtworkClick(u, locked, hits) ==
  IF ~locked THEN u ELSE ClickWalk(u, hits)

\* ---------------------------------------------------------- AudioManager
\* The audio manager as one value that its handlers transform.
Aud == [audioContext |-> audioContext, buffer |-> buffer,
        loadPath |-> loadPath, webPlaying |-> webPlaying,
        html5Playing |-> html5Playing, html5Audio |-> html5Audio,
        isMuted |-> isMuted, useHtml5Fallback |-> useHtml5Fallback,
        muteLabel |-> muteLabel, fallbackTimer |-> fallbackTimer,
        playThenable |-> playThenable]

CommitAudio(a) ==
  /\ audioContext' = a.audioContext
  /\ buffer' = a.buffer
  /\ loadPath' = a.loadPath
  /\ webPlaying' = a.webPlaying
  /\ html5Playing' = a.html5Playing
  /\ html5Audio' = a.html5Audio
  /\ isMuted' = a.isMuted
  /\ useHtml5Fallback' = a.useHtml5Fallback
  /\ muteLabel' = a.muteLabel
  /\ fallbackTimer' = a.fallbackTimer
  /\ playThenable' = a.playThenable

\* this.html5Audio.play(): the element plays, unless the browser rejects
\* the request (allowed tells which)
html5Play(a, allowed) ==
  IF allowed THEN [a EXCEPT !.html5Playing = TRUE] ELSE a

setupHtml5Audio(a, allowed) ==
  IF ~a.html5Audio THEN a ELSE html5Play(a, allowed)

\* tryLoadMusic(index) of loadWebAudio
tryLoadMusic(a, index, allowed) ==
  IF index >= NumPaths
    THEN setupHtml5Audio(
           [a EXCEPT !.useHtml5Fallback = TRUE, !.loadPath = NoLoad], allowed)
    ELSE [a EXCEPT !.loadPath = index]

loadWebAudio(a, allowed) ==
  IF a.useHtml5Fallback THEN a ELSE tryLoadMusic(a, 0, allowed)

\* initAudio, the listener of the window's click and keydown
initAudio(a) ==
  IF a.audioContext
    THEN a
    ELSE loadWebAudio([a EXCEPT !.audioContext = TRUE], TRUE)

\* the callback of the timer of initializeAudio
fallbackTimeout(a, allowed) ==
  LET a1 == [a EXCEPT !.fallbackTimer = FALSE]
  IN IF ~a1.audioContext \/ ~a1.buffer
       THEN setupHtml5Audio([a1 EXCEPT !.useHtml5Fallback = TRUE], allowed)
       ELSE a1

\* the load callback of tryLoadMusic; the call of catch on what play()
\* returned is the callback's last statement
onLoad(a) ==
  LET a1 == [a EXCEPT !.buffer = TRUE, !.loadPath = NoLoad]
  IN IF ~a1.isMuted THEN [a1 EXCEPT !.webPlaying = TRUE] ELSE a1

\* the error callback of tryLoadMusic
onLoadError(a, allowed) == tryLoadMusic(a, a.loadPath + 1, allowed)

\* toggleMute; where play() returns no thenable the call of catch throws
\* and the statement after it is not reached
toggleMute(a, allowed) ==
  LET a1 == [a EXCEPT !.isMuted = ~@]
  IN IF a1.useHtml5Fallback
       THEN IF ~a1.html5Audio
              THEN a1
              ELSE IF a1.isMuted
                     THEN [a1 EXCEPT !.html5Playing = FALSE,
                                     !.muteLabel = "Unmute"]
                     ELSE [html5Play(a1, allowed) EXCEPT !.muteLabel = "Mute"]
       ELSE IF ~a1.audioContext
              THEN a1
              ELSE IF a1.isMuted
                     THEN [a1 EXCEPT !.webPlaying = FALSE,
                                     !.muteLabel = "Unmute"]
                     ELSE IF a1.playThenable
                            THEN [a1 EXCEPT !.webPlaying = TRUE,
                                            !.muteLabel = "Mute"]
                            ELSE [a1 EXCEPT !.webPlaying = TRUE]

\* ------------------------------------------------- dispatch of the events
\* pointerlockchange is fired at the document: the listeners registered on
\* the document run in registration order, onPointerlockChange first (it is
\* registered by the constructor), then every onUnlock registered before
\* the dispatch began.  The onLock closures sit on the canvas, which is not
\* on the propagation path of an event fired at the document (the path is
\* the document, then the window).
PointerlockEventPath == {"document", "window"}

RECURSIVE RunLockListeners(_, _)
RunLockListeners(s, ids) ==
  IF ids = {}
    THEN s
    ELSE LET id == CHOOSE i \in ids : \A j \in ids : i <= j
         IN RunLockListeners(onLock(s, id), ids \ {id})

RECURSIVE RunUnlockListeners(_, _)
RunUnlockListeners(s, ids) ==
  IF ids = << >>
    THEN s
    ELSE RunUnlockListeners(onUnlock(s, Head(ids)), Tail(ids))

DispatchPointerlockChange(s) ==
  LET s0 == IF "canvas" \in PointerlockEventPath
              THEN RunLockListeners(s, s.lockListeners)
              ELSE s
      s1 == IF "pointerlockchange" \in s0.subs THEN onPointerlockChange(s0) ELSE s0
  IN RunUnlockListeners(s1, s1.unlockListeners)

DispatchPointerlockError(s) ==
  IF "pointerlockerror" \in s.subs THEN onPointerlockError(s) ELSE s

\* main.js, the canvas click listener of setupEventListeners, what it does
\* to the controller; the artwork pick of handleArtworkClick touches none
\* of the controller's state.
MainCanvasClick(s, button) ==
  IF button = 0 /\ ~s.isLocked THEN lock(s) ELSE s

\* the same listener, what it does to the page
MainCanvasClickPage(u, s, button, hits) ==
  IF button = 0 /\ s.isLocked
    THEN handleArtworkClick(u, s.isLocked, hits)
    ELSE u

MainContextMenu(s) ==
  IF s.isLocked THEN s ELSE lock(s)

\* the context-menu listener as it would be if it selected in either state
MainContextMenuPage_either(u, s, hits) == ClickWalk(u, hits)

\* the same listener, what it does to the page
MainContextMenuPage(u, s, hits) ==
  IF s.isLocked THEN handleArtworkClick(u, s.isLocked, hits) ELSE u

MainEscape(s, code) ==
  IF code = "Escape" /\ s.isLocked THEN unlock(s) ELSE s

MainOnKeyDown(s, code) ==
  IF s.isLocked THEN onKeyDown(s, code) ELSE s

MainOnKeyUp(s, code) == onKeyUp(s, code)

\* the flag a movement key drives (onKeyDown, onKeyUp)
FlagOf(code) ==
  CASE code \in {"KeyW", "ArrowUp"}    -> "moveForward"
    [] code \in {"KeyS", "ArrowDown"}  -> "moveBackward"
    [] code \in {"KeyA", "ArrowLeft"}  -> "moveRight"
    [] code \in {"KeyD", "ArrowRight"} -> "moveLeft"

\* ----------------------------------------------------------------- actions
\* the controller after its constructor, the browser with nothing captured
InitController ==
  /\ isLocked = FALSE
  /\ moveForward = FALSE
  /\ moveBackward = FALSE
  /\ moveLeft = FALSE
  /\ moveRight = FALSE
  /\ yaw = 0
  /\ position = [x |-> StartX, z |-> StartZ]
  /\ target = [x |-> StartX + Scale * Sin(0), z |-> StartZ + Scale * Cos(0)]
  /\ subs = AllSubs
  /\ lockListeners = {}
  /\ unlockListeners = << >>
  /\ promises = << >>
  /\ blocker = "initial"
  /\ crosshair = "initial"
  /\ pointerLockElement = FALSE
  /\ envQueue = << >>
  /\ reqSupported \in BOOLEAN
  /\ exitSupported \in BOOLEAN
  /\ frames = 0
  /\ idleFrames = 0
  /\ justLocked = FALSE

\* The page after init() and the two assignments that follow it, for a
\* document that has the regions els.  getElementById returns null for a
\* region the document lacks: the first assignment to a property of null
\* throws, and the statements after it do not run.
InitPage(els) ==
  /\ elements = els
  /\ hovered = {}
  /\ scale = [k \in Artworks |-> originalScale]
  /\ emissive = [k \in Artworks |-> "0x000000"]
  /\ placed = [k \in Artworks |-> Place(k, Len(ARTWORKS), radius)]
  /\ cursor = ""
  /\ titleText = IF "title" \in els THEN Data(0).title ELSE ""
  /\ artistText = IF {"title", "artist"} \subseteq els
                    THEN Data(0).artist ELSE ""
  /\ panelVisible = FALSE
  /\ infoTimeout = 0
  /\ timers = {}
  /\ uncaught = IF {"title", "artist"} \subseteq els THEN 0 ELSE 1
  /\ sinceSelect = -1

\* the audio manager after its construction, on a page that has the audio
\* element or not, with a library whose play() returns a thenable or not
InitAudio(element, thenable) ==
  /\ audioContext = FALSE
  /\ buffer = FALSE
  /\ loadPath = NoLoad
  /\ webPlaying = FALSE
  /\ html5Playing = FALSE
  /\ html5Audio = element
  /\ isMuted = FALSE
  /\ useHtml5Fallback = FALSE
  /\ muteLabel = "Mute"
  /\ fallbackTimer = TRUE
  /\ playThenable = thenable

\* the gallery on a page that has every region and the audio element
Init == InitController /\ InitPage(Elements) /\ InitAudio(TRUE, FALSE)

\* a click on the canvas, the ray through the pointer meeting hits:
\* this.lock (initEventListeners), then the click listener of
\* setupEventListeners, then initAudio on the window
CanvasClickAt(button, hits) ==
  LET s1 == IF "click" \in subs THEN lock(Cur) ELSE Cur
  IN /\ Commit(MainCanvasClick(s1, button))
     /\ CommitPage(MainCanvasClickPage(Page, s1, button, hits))
     /\ CommitAudio(initAudio(Aud))
     /\ UNCHANGED <<frames, idleFrames, elements>>

\* a click with the pointer on nothing
CanvasClick(button) == CanvasClickAt(button, << >>)

\* a secondary click, the ray through the pointer meeting hits
ContextMenuAt(hits) ==
  /\ Commit(MainContextMenu(Cur))
  /\ CommitPage(MainContextMenuPage(Page, Cur, hits))
  /\ UNCHANGED <<frames, idleFrames, elements, audioVars>>

\* a secondary click with the pointer on nothing
ContextMenu == ContextMenuAt(<< >>)

InstructionsClick ==
  /\ ~isLocked
  /\ Commit(lock(Cur))
  /\ CommitAudio(initAudio(Aud))
  /\ UNCHANGED pageVars
  /\ UNCHANGED <<frames, idleFrames, elements>>

\* a key-down on the document: this.onKeyDown (initEventListeners), then the
\* Escape listener and onKeyDown of main.js
DispatchKeyDown(s, code) ==
  LET s1 == IF "keydown" \in s.subs THEN onKeyDown(s, code) ELSE s
      s2 == MainEscape(s1, code)
  IN MainOnKeyDown(s2, code)

KeyDown(code) ==
  /\ UNCHANGED <<frames, idleFrames, elements>>
  /\ UNCHANGED pageVars
  /\ CommitAudio(initAudio(Aud))
  /\ Commit([DispatchKeyDown(Cur, code)
               EXCEPT !.justLocked = @ /\ code \notin MoveCodes])

\* a key-up on the document: this.onKeyUp, then onKeyUp of main.js
DispatchKeyUp(s, code) ==
  LET s1 == IF "keyup" \in s.subs THEN onKeyUp(s, code) ELSE s
  IN MainOnKeyUp(s1, code)

KeyUp(code) ==
  /\ UNCHANGED <<frames, idleFrames, elements, audioVars>>
  /\ UNCHANGED pageVars
  /\ Commit([DispatchKeyUp(Cur, code)
               EXCEPT !.justLocked = @ /\ code \notin MoveCodes])

\* a pointer move on the document, the ray through the pointer meeting
\* hits: this.onMouseMove, then onPointerMove of main.js (the hover pass),
\* while the yaw stays within turn quarter turns
PointerMoved(movementX, turn, hits) ==
  LET s1 == IF "mousemove" \in subs THEN onMouseMove(Cur, movementX) ELSE Cur
  IN /\ s1.yaw \in -turn .. turn
     /\ Commit(s1)
     /\ CommitPage(onPointerMove(Page, s1.isLocked, hits))
     /\ UNCHANGED <<frames, idleFrames, elements, audioVars>>

\* a pointer move with the pointer on nothing
MouseMove(movementX) == PointerMoved(movementX, MaxYaw, << >>)

\* one animation frame: animate() calls state.player.update(delta)
Animate ==
  /\ frames < MaxFrames
  /\ frames' = frames + 1
  /\ idleFrames' = IF ~isLocked /\ (moveForward \/ moveBackward \/ moveLeft \/ moveRight)
                     THEN idleFrames + 1
                     ELSE idleFrames
  /\ Commit([update(Cur) EXCEPT !.justLocked = FALSE])
  /\ UNCHANGED <<elements, pageVars, audioVars>>

Dispose ==
  /\ Commit(dispose(Cur))
  /\ UNCHANGED pageVars
  /\ UNCHANGED <<frames, idleFrames, elements, audioVars>>

Answered(s, id, a) == [s EXCEPT !.promises[id].answer = a]

\* the browser grants the oldest request: the canvas captures the pointer
\* and pointerlockchange is fired
EnvGrant ==
  /\ envQueue # << >>
  /\ Head(envQueue).kind = "request"
  /\ Commit(DispatchPointerlockChange(
       [Answered(Cur, Head(envQueue).id, "granted")
          EXCEPT !.envQueue = Tail(@), !.pointerLockElement = TRUE]))
  /\ UNCHANGED <<frames, idleFrames, elements, audioVars>>
  /\ UNCHANGED pageVars

\* the browser refuses the oldest request: pointerlockerror is fired
EnvDeny ==
  /\ envQueue # << >>
  /\ Head(envQueue).kind = "request"
  /\ Commit(DispatchPointerlockError(
       [Answered(Cur, Head(envQueue).id, "denied")
          EXCEPT !.envQueue = Tail(@)]))
  /\ UNCHANGED <<frames, idleFrames, elements, audioVars>>
  /\ UNCHANGED pageVars

\* the browser carries out the oldest exitPointerLock: the capture is
\* released and pointerlockchange is fired, unless it is released already
EnvExit ==
  /\ envQueue # << >>
  /\ Head(envQueue).kind = "exit"
  /\ IF pointerLockElement
       THEN Commit(DispatchPointerlockChange(
              [Answered(Cur, Head(envQueue).id, "released")
                 EXCEPT !.envQueue = Tail(@), !.pointerLockElement = FALSE]))
       ELSE Commit([Cur EXCEPT !.envQueue = Tail(@)])
  /\ UNCHANGED <<frames, idleFrames, elements, audioVars>>
  /\ UNCHANGED pageVars

\* the browser releases the pointer on its own (its Escape handling, a
\* focus loss) and fires pointerlockchange
EnvRelease ==
  /\ pointerLockElement
  /\ Commit(DispatchPointerlockChange([Cur EXCEPT !.pointerLockElement = FALSE]))
  /\ UNCHANGED <<frames, idleFrames, elements, audioVars>>
  /\ UNCHANGED pageVars

\* a second passes; a timer that is due runs before the next second does
Tick ==
  /\ timers # {}
  /\ \A t \in timers : t.left > 0
  /\ timers' = {[t EXCEPT !.left = @ - 1] : t \in timers}
  /\ sinceSelect' = IF sinceSelect \in 0 .. InfoDelay - 1
                      THEN sinceSelect + 1 ELSE sinceSelect
  /\ UNCHANGED <<controlVars, elements, hovered, scale, emissive, placed,
                 cursor, titleText, artistText, panelVisible, infoTimeout,
                 uncaught, audioVars>>

\* a due timer runs its callback
TimerFire ==
  \E t \in timers :
    /\ t.left = 0
    /\ CommitPage([hideInfo(Page) EXCEPT !.timers = @ \ {t}])
    /\ UNCHANGED <<controlVars, elements, audioVars>>

\* a click on the mute button: toggleMute, then initAudio on the window
MuteClick(allowed) ==
  /\ CommitAudio(initAudio(toggleMute(Aud, allowed)))
  /\ UNCHANGED <<controlVars, elements, pageVars>>

\* the timer of initializeAudio runs out
FallbackTimeout(allowed) ==
  /\ fallbackTimer
  /\ CommitAudio(fallbackTimeout(Aud, allowed))
  /\ UNCHANGED <<controlVars, elements, pageVars>>

\* the loader delivers the file it was fetching
LoadSuccess ==
  /\ loadPath # NoLoad
  /\ CommitAudio(onLoad(Aud))
  /\ UNCHANGED <<controlVars, elements, pageVars>>

\* the loader fails to fetch the file
LoadFailure(allowed) ==
  /\ loadPath # NoLoad
  /\ CommitAudio(onLoadError(Aud, allowed))
  /\ UNCHANGED <<controlVars, elements, pageVars>>

\* The lock lifecycle: every event that reaches lock(), unlock() or
\* dispose(), and the browser's answers.  None of these handlers reads a
\* movement flag, the yaw or the camera.
Next ==
  \/ \E button \in Buttons : CanvasClick(button)
  \/ ContextMenu
  \/ InstructionsClick
  \/ KeyDown("Escape")
  \/ Dispose
  \/ EnvGrant
  \/ EnvDeny
  \/ EnvExit
  \/ EnvRelease

Spec == Init /\ [][Next]_vars

\* Movement and look: the keys, the pointer and the animation frame, with
\* the lock acquired from the context menu and released by the browser.
\* unlock() is not reached here, so the exit capability is immaterial.
InitMove == Init /\ exitSupported

NextMove ==
  \/ \E code \in MoveCodes \cup {"KeyM"} : KeyDown(code)
  \/ \E code \in MoveCodes \cup {"KeyM"} : KeyUp(code)
  \/ \E movementX \in Deltas : MouseMove(movementX)
  \/ Animate
  \/ ContextMenu
  \/ EnvGrant
  \/ EnvRelease

SpecMove == InitMove /\ [][NextMove]_vars

\* Disposal with keys held: the movement keys, the lock and dispose().
NextDispose ==
  \/ \E code \in MoveCodes : KeyDown(code)
  \/ \E code \in MoveCodes : KeyUp(code)
  \/ ContextMenu
  \/ Dispose
  \/ EnvGrant
  \/ EnvExit
  \/ EnvRelease

SpecDispose == Init /\ [][NextDispose]_vars

\* Hover and click: pointer moves that do not turn the camera and the two
\* clicks, for every list of intersections, with the lock acquired by a
\* click and released by the browser.  No time passes.
InitPick == Init /\ reqSupported /\ exitSupported

NextPick ==
  \/ \E hits \in HitLists : CanvasClickAt(0, hits)
  \/ \E hits \in HitLists : ContextMenuAt(hits)
  \/ \E hits \in HitLists : PointerMoved(0, MaxYaw, hits)
  \/ EnvGrant
  \/ EnvRelease

SpecPick == InitPick /\ [][NextPick]_vars

\* The info display: selections and the passing of time, on a page that
\* has any of the three regions or lacks them.
InitInfo ==
  /\ InitController
  /\ reqSupported
  /\ exitSupported
  /\ \E els \in SUBSET Elements : InitPage(els)
  /\ InitAudio(TRUE, FALSE)

NextInfo ==
  \/ \E k \in Artworks : ContextMenuAt(<<Image(k)>>)
  \/ ContextMenu
  \/ EnvGrant
  \/ Tick
  \/ TimerFire

SpecInfo == InitInfo /\ [][NextInfo]_vars

\* Mouse look: the pointer, over the whole range in which the yaw's sums
\* are rounded, on an artwork or on nothing.
InitLook == Init /\ reqSupported /\ exitSupported

NextLook ==
  \/ ContextMenu
  \/ EnvGrant
  \/ EnvRelease
  \/ \E movementX \in Deltas, hits \in {<< >>} \cup {<<Image(k)>> : k \in Artworks} :
       PointerMoved(movementX, MaxTurn, hits)

SpecLook == InitLook /\ [][NextLook]_vars

\* Audio: the first interaction (a key or the mute button), the fallback
\* timer, the loader's answers and the mute button, in any order, on a
\* page with or without the audio element.
InitAudioSpec ==
  /\ InitController
  /\ reqSupported
  /\ exitSupported
  /\ InitPage(Elements)
  /\ \E element, thenable \in BOOLEAN : InitAudio(element, thenable)

NextAudio ==
  \/ KeyDown("KeyM")
  \/ \E allowed \in BOOLEAN : MuteClick(allowed)
  \/ \E allowed \in BOOLEAN : FallbackTimeout(allowed)
  \/ LoadSuccess
  \/ \E allowed \in BOOLEAN : LoadFailure(allowed)

SpecAudio == InitAudioSpec /\ [][NextAudio]_vars

\* ------------------------------------------------------------------ claims
LockPromises == {i \in DOMAIN promises : promises[i].kind = "lock"}

UnlockPromises == {i \in DOMAIN promises : promises[i].kind = "unlock"}

Requests == {i \in DOMAIN envQueue : envQueue[i].kind = "request"}

\* a step that calls lock()
LockCall ==
  \/ \E button \in Buttons : CanvasClick(button)
  \/ ContextMenu
  \/ InstructionsClick

FlagIn(s, f) ==
  CASE f = "moveForward"  -> s.moveForward
    [] f = "moveBackward" -> s.moveBackward
    [] f = "moveLeft"     -> s.moveLeft
    [] f = "moveRight"    -> s.moveRight

\* in the current state, Locked or not, a controller that still listens
\* comes out of a key-down with the key's flag set, and out of a key-up
\* with it clear
KeysDriveFlags ==
  \A code \in MoveCodes :
    /\ "keydown" \in subs => FlagIn(DispatchKeyDown(Cur, code), FlagOf(code))
    /\ ~FlagIn(DispatchKeyUp(Cur, code), FlagOf(code))

flags == <<moveForward, moveBackward, moveLeft, moveRight>>

AnyFlag == moveForward \/ moveBackward \/ moveLeft \/ moveRight

\* the set flags do not cancel each other
NetMovement == (moveForward # moveBackward) \/ (moveLeft # moveRight)

\* C1: the lock state is confirmed, not optimistic.  isLocked goes from
\* false to true only in the step in which the browser grants a request and
\* fires pointerlockchange; a step that calls lock() leaves isLocked as it
\* was; and isLocked is never true while the browser holds no capture.
C1_LockStateConfirmed ==
  /\ [][/\ (~isLocked /\ isLocked') => EnvGrant
        /\ LockCall => (isLocked' = isLocked)]_vars
  /\ [](isLocked => pointerLockElement)

\* lock() has been called, the browser has not answered, the state is Unlocked
C1_Witness ==
  /\ ~isLocked
  /\ Requests # {}
  /\ \E i \in LockPromises : promises[i].answer = "none" /\ i \in lockListeners

\* C2: a lock() call whose request the browser has granted has its deferred
\* result resolved, by exactly one resolve().
C2_GrantedLockResolvedOnce ==
  \A i \in LockPromises :
    promises[i].answer = "granted" =>
      promises[i].state = "resolved" /\ promises[i].calls = 1

\* C3: a lock() call whose request the browser has refused has its deferred
\* result rejected; the refusal leaves the lock state as it was (Unlocked)
\* and issues no new request.
C3_DeniedLockRejected ==
  /\ [](\A i \in LockPromises :
          promises[i].answer = "denied" => promises[i].state = "rejected")
  /\ [][EnvDeny => /\ isLocked' = isLocked
                   /\ Len(promises') = Len(promises)
                   /\ envQueue' = Tail(envQueue)]_vars

\* C4: without the pointer-capture API every lock() call has rejected its
\* deferred result, by one reject(); no onLock listener is registered, no
\* request is made, and the state is Unlocked.
C4_UnsupportedLockRejects ==
  ~reqSupported =>
    /\ \A i \in LockPromises :
         promises[i].state = "rejected" /\ promises[i].calls = 1
    /\ lockListeners = {}
    /\ Requests = {}
    /\ ~isLocked

\* lock() has been called without the API
C4_Witness == ~reqSupported /\ LockPromises # {}

\* C5: with the release API, a step that calls unlock() leaves isLocked as
\* it was, and the deferred result of unlock() resolves in a step in which
\* the browser confirms a release, which leaves the capture released and
\* the state Unlocked; without the release API every unlock() has resolved
\* its result and set the state Unlocked at once.
C5_UnlockResolvesOnRelease ==
  /\ [][/\ \A i \in UnlockPromises :
             (promises[i].state = "pending" /\ promises'[i].state = "resolved")
               => /\ EnvExit \/ EnvRelease
                  /\ ~pointerLockElement'
                  /\ ~isLocked'
        /\ (exitSupported /\ (KeyDown("Escape") \/ Dispose))
             => (isLocked' = isLocked)
        /\ (~exitSupported /\ (KeyDown("Escape") \/ Dispose)
              /\ Len(promises') > Len(promises))
             => ~isLocked']_vars
  /\ [](~exitSupported =>
          \A i \in UnlockPromises : promises[i].state = "resolved")

\* C6: an Escape key-down calls unlock() in every lock state; pressed while
\* Unlocked it leaves the state Unlocked, and the unlock() calls made while
\* Unlocked do not change the state a later grant reaches: when no other
\* release is outstanding, the grant leaves the controller Locked.
C6_EscapeWhileUnlockedHarmless ==
  [][/\ (KeyDown("Escape") /\ "keydown" \in subs)
          => /\ Len(promises') > Len(promises)
             /\ promises'[Len(promises) + 1].kind = "unlock"
     /\ (KeyDown("Escape") /\ ~isLocked) => ~isLocked'
     /\ (/\ EnvGrant
         /\ "pointerlockchange" \in subs
         /\ \A j \in DOMAIN unlockListeners :
              ~promises[unlockListeners[j]].atLocked)
          => isLocked']_vars

\* C7: dispose() leaves no listener attached, neither those of
\* initEventListeners nor an onLock or onUnlock closure, and leaves the
\* controller Unlocked; dispose() on a disposed controller changes nothing.
C7_DisposeDetachesAll ==
  [][Dispose => /\ subs' = {}
                /\ lockListeners' = {}
                /\ unlockListeners' = << >>
                /\ ~isLocked'
                /\ subs = {} => UNCHANGED vars]_vars

\* C8: after dispose() the four movement flags are false.
C8_DisposeClearsFlags ==
  [][Dispose => /\ ~moveForward'
                /\ ~moveBackward'
                /\ ~moveLeft'
                /\ ~moveRight']_vars

\* C9: an update while Unlocked leaves the camera position, the look target
\* and the yaw unchanged, whatever flags are set.
C9_UpdateNoOpUnlocked ==
  [][(Animate /\ ~isLocked) => UNCHANGED <<position, target, yaw>>]_vars

\* an update has run while Unlocked with a flag set
C9_Witness == idleFrames > 0

\* C10, as stated: a movement key-down sets and a key-up clears its flag in
\* either lock state; the grant of the lock leaves the flags as they were
\* while Unlocked; and the first update after locking, with a flag that was
\* set while Unlocked, moves the camera.
C10_StaleFlagsDisplace ==
  /\ []KeysDriveFlags
  /\ [][/\ EnvGrant => UNCHANGED flags
        /\ (Animate /\ justLocked /\ AnyFlag) => position' # position]_vars

\* C10, amended: as above, but the first update after locking moves the
\* camera exactly when the set flags do not cancel (forward against
\* backward, left against right).
C10_StaleFlagsDisplaceUnlessCancelled ==
  /\ []KeysDriveFlags
  /\ [][/\ EnvGrant => UNCHANGED flags
        /\ (Animate /\ justLocked /\ AnyFlag)
             => ((position' # position) <=> NetMovement)]_vars

\* the lock has been granted with a flag that was set while Unlocked, and
\* no update has run since
C10_Witness == justLocked /\ AnyFlag /\ frames < MaxFrames

\* a pointer move of the look specification
LookMove ==
  \E movementX \in Deltas, hits \in {<< >>} \cup {<<Image(k)>> : k \in Artworks} :
    PointerMoved(movementX, MaxTurn, hits)

\* C11: a pointer move while Unlocked changes neither the yaw nor the look
\* target, nor an artwork's hover state, nor the cursor; and the yaw
\* changes only in a pointer move received while Locked.
C11_PointerIgnoredUnlocked ==
  [][/\ (~isLocked /\ LookMove) => UNCHANGED <<yaw, target, hovered, cursor>>
     /\ (yaw' # yaw) => (isLocked /\ LookMove)]_vars

\* the controller is Unlocked with the camera turned and a highlight left
\* by the last hover pass: a pointer move here has something to change
C11_Witness == ~isLocked /\ yaw # 0 /\ hovered # {} /\ cursor = "pointer"

\* C12: at most one artwork is Highlighted.
C12_AtMostOneHighlighted == Cardinality(hovered) <= 1

\* the highlight has moved to an artwork other than the first
C12_Witness == hovered = {NumArtworks - 1} /\ NumArtworks > 1

\* the artwork of the first intersection that carries the artwork tag, -1
\* when none does
FirstTagged(hits) ==
  LET tagged == {i \in DOMAIN hits : hits[i].type = "artwork"}
  IN IF tagged = {}
       THEN -1
       ELSE hits[CHOOSE i \in tagged : \A j \in tagged : i <= j].data

\* C13: while Locked, for every list of intersections in ascending
\* distance, the hover pass highlights and the click pass selects the
\* artwork of the first intersection that carries the artwork tag, however
\* many untagged nodes are nearer; when none carries the tag the hover pass
\* leaves no artwork highlighted, the click pass changes nothing, and
\* neither raises an error.
C13_PickFirstTagged ==
  isLocked =>
    \A hits \in HitLists :
      LET h == onPointerMove(Page, isLocked, hits)
          c == handleArtworkClick(Page, isLocked, hits)
          k == FirstTagged(hits)
      IN /\ h.uncaught = uncaught
         /\ c.uncaught = uncaught
         /\ k = -1 => /\ h.hovered = {}
                       /\ h.cursor = "default"
                       /\ c = Page
         /\ k # -1 => /\ h.hovered = {k}
                       /\ h.cursor = "pointer"
                       /\ c.titleText = Data(k).title
                       /\ c.artistText = Data(k).artist
                       /\ c.panelVisible

\* Locked, with an artwork highlighted by the hover pass and one selected
\* by the click pass
C13_Witness == isLocked /\ cursor = "pointer" /\ hovered # {} /\ panelVisible

\* C14: while Locked, for the same intersections, the hover pass and the
\* click pass resolve the same target: either the hover pass highlights
\* nothing and the click pass selects nothing, or the hover pass highlights
\* one artwork and the click pass displays that artwork's title and artist.
C14_HoverClickAgree ==
  isLocked =>
    \A hits \in HitLists :
      LET h == onPointerMove(Page, isLocked, hits)
          c == handleArtworkClick(Page, isLocked, hits)
      IN \/ /\ h.hovered = {}
            /\ c.titleText = titleText
            /\ c.artistText = artistText
            /\ c.panelVisible = panelVisible
            /\ c.sinceSelect = sinceSelect
         \/ \E k \in Artworks :
              /\ h.hovered = {k}
              /\ c.titleText = Data(k).title
              /\ c.artistText = Data(k).artist
              /\ c.panelVisible
              /\ c.sinceSelect = 0

\* Locked, with the same artwork, not the one shown at startup, highlighted
\* and displayed
C14_Witness ==
  /\ isLocked
  /\ \E k \in Artworks \ {0} :
       hovered = {k} /\ titleText = Data(k).title /\ artistText = Data(k).artist
  /\ panelVisible

\* C15: at most one hide timer is pending, the one state.infoTimeout names;
\* a selection leaves one timer with the full 5 seconds, whatever was
\* pending; the panel is visible until 5 seconds have passed since the
\* last selection, and hidden once the timer has run at 5 seconds.
C15_SingleRestartedTimer ==
  /\ Cardinality(timers) <= 1
  /\ \A t \in timers : t.id = infoTimeout
  /\ (infoTimeout # 0) => (timers # {})
  /\ \A t \in timers : sinceSelect >= 0 /\ t.left = InfoDelay - sinceSelect
  /\ (sinceSelect \in 0 .. InfoDelay - 1) => (panelVisible /\ timers # {})
  /\ (sinceSelect = InfoDelay /\ timers = {}) => ~panelVisible
  /\ panelVisible => timers # {}

\* the timer of a selection has run, 5 seconds after it
C15_Witness == sinceSelect = InfoDelay /\ timers = {} /\ ~panelVisible

\* C16: on a page that has the info regions, while Locked a primary click
\* and a secondary click whose first tagged intersection belongs to
\* artwork k put artwork k's title and artist on display and make the
\* panel visible; while Unlocked either click leaves the page as it is,
\* requests the pointer lock and leaves the state Unlocked.
C16_ClickSelectsWhenLocked ==
  (Elements \subseteq elements) =>
    \A hits \in HitLists :
      LET s1 == IF "click" \in subs THEN lock(Cur) ELSE Cur
          pc == MainCanvasClickPage(Page, s1, 0, hits)
          pm == MainContextMenuPage(Page, Cur, hits)
          sc == MainCanvasClick(s1, 0)
          sm == MainContextMenu(Cur)
          k  == FirstTagged(hits)
      IN /\ (isLocked /\ k # -1) =>
              /\ pc.titleText = Data(k).title
              /\ pc.artistText = Data(k).artist
              /\ pc.panelVisible
              /\ pm.titleText = Data(k).title
              /\ pm.artistText = Data(k).artist
              /\ pm.panelVisible
         /\ ~isLocked =>
              /\ pc = Page
              /\ pm = Page
              /\ Len(sc.envQueue) > Len(envQueue)
              /\ ~sc.isLocked
              /\ Len(sm.envQueue) = Len(envQueue) + 1
              /\ ~sm.isLocked

\* Locked, with an artwork other than the one shown at startup on display
C16_Witness ==
  /\ isLocked
  /\ panelVisible
  /\ titleText = Data(NumArtworks - 1).title
  /\ NumArtworks > 1

\* C17: once a lock-state change has set the two regions, the blocker is
\* hidden exactly when the controller is Locked and the crosshair is shown
\* exactly when it is Locked.
C17_RegionsTrackLock ==
  (blocker # "initial" \/ crosshair # "initial") =>
    /\ (blocker = "none") <=> isLocked
    /\ (crosshair = "block") <=> isLocked

\* C18: on a page that lacks the title, the artist or the info-panel
\* region no exception is thrown, at startup or later, no timer is started
\* and the panel state does not change.
C18_MissingRegionsSilent ==
  (elements # Elements) =>
    /\ uncaught = 0
    /\ timers = {}
    /\ infoTimeout = 0
    /\ ~panelVisible
    /\ sinceSelect = -1

\* the yaw and the look target after a pointer move by d and one by -d
ThereAndBack(d) == onMouseMove(onMouseMove(Cur, d), -d)

\* C19, as stated: while Locked, from every yaw, a pointer move by d
\* followed by one by -d leaves the yaw and the look target as they were.
C19_DeltaReversible ==
  isLocked =>
    \A d \in Deltas :
      ThereAndBack(d).yaw = yaw /\ ThereAndBack(d).target = target

\* C19, amended: while Locked, a pointer move by d followed by one by -d
\* leaves the yaw and the look target as they were whenever the first
\* sum is representable, as it is from the initial yaw; otherwise the yaw
\* comes back within one spacing of the representable numbers.
C19_DeltaReversibleUpToRounding ==
  isLocked =>
    \A d \in Deltas :
      /\ (onMouseMove(Cur, d).yaw = yaw - d) =>
           (ThereAndBack(d).yaw = yaw /\ ThereAndBack(d).target = target)
      /\ Abs(ThereAndBack(d).yaw - yaw) <= Quantum(Abs(yaw) + Abs(d))

\* Locked, at a yaw from which one of the two unit moves is exact and the
\* other is rounded
C19_Witness == isLocked /\ Abs(yaw) = Mantissa

\* C20: a Locked update with the four movement flags false leaves the
\* camera position and the look target as they were, at every yaw.
C20_NoFlagsNoDisplacement ==
  [][(isLocked /\ ~AnyFlag /\ Animate)
       => UNCHANGED <<position, target, yaw>>]_vars

\* Locked and turned, no flag set, an update about to run
C20_Witness == isLocked /\ ~AnyFlag /\ yaw # 0 /\ frames < MaxFrames

\* the facing rotated by +90 degrees, the right vector of update()
RightX == Sin(yaw + 1)

RightZ == Cos(yaw + 1)

\* only the flag f is set
OnlyFlag(f) ==
  /\ moveLeft = (f = "moveLeft")
  /\ moveRight = (f = "moveRight")
  /\ ~moveForward
  /\ ~moveBackward

\* in the current state a controller that still listens comes out of a
\* key-down of KeyA or ArrowLeft with moveRight set, and of KeyD or
\* ArrowRight with moveLeft set
StrafeKeysSwapped ==
  "keydown" \in subs =>
    /\ \A code \in {"KeyA", "ArrowLeft"} : DispatchKeyDown(Cur, code).moveRight
    /\ \A code \in {"KeyD", "ArrowRight"} : DispatchKeyDown(Cur, code).moveLeft

PointerlockChangeFired ==
  \/ EnvGrant
  \/ EnvRelease
  \/ EnvExit /\ pointerLockElement

\* C25: when the handlers of a pointerlockchange event have run on a
\* controller that listens for it, isLocked tells whether the canvas is the
\* pointer-lock element.
C25_FlagMatchesElementAfterChange ==
  [][(PointerlockChangeFired /\ "pointerlockchange" \in subs)
       => (isLocked' = pointerLockElement')]_vars

\* C22: a second setHighlight(f) in a row leaves the artwork's scale, tint
\* and hover state as the first left them and sets nothing; the first sets
\* the scale and tint once when it changes the hover state and not at all
\* otherwise.
C22_SetHighlightIdempotent ==
  \A k \in Artworks, f \in BOOLEAN :
    LET a == setHighlight(Page, k, f)
        b == setHighlight(a, k, f)
    IN /\ b.scale = a.scale
       /\ b.emissive = a.emissive
       /\ b.hovered = a.hovered
       /\ b.writes = a.writes
       /\ a.writes = IF (k \in hovered) # f THEN 1 ELSE 0
       /\ (k \in a.hovered) = f
       /\ a.scale[k] = IF f THEN highlightScale ELSE originalScale
       /\ a.emissive[k] = IF f THEN "0x333333" ELSE "0x000000"

\* hover passes have highlighted one artwork and reset another that was
\* not highlighted
C22_Witness ==
  /\ isLocked
  /\ \E k \in Artworks : k \in hovered /\ scale[k] = highlightScale
  /\ \E k \in Artworks : k \notin hovered /\ scale[k] = originalScale

\* totals of artworks that divide twelve
Totals == {1, 2, 3, 4, 6, 12}

\* the squared distance of two positions on the floor plan
Chord2(p, q) == (p.x - q.x) * (p.x - q.x) + (p.z - q.z) * (p.z - q.z)

\* a thousandth of the squared radius
Tolerance2 == radius * radius * Scale

\* C23: artwork i of n hangs at i/n of a full turn on the circle of the
\* radius, at the fixed height: every artwork is where createArtwork put
\* it, distinct indices have distinct positions, neighbours are equally far
\* apart and all lie on the circle (to a thousandth), and of six artworks
\* at radius 15 the first is at (0, h, 15) and the fourth at (0, h, -15).
C23_Placement ==
  /\ \A k \in Artworks : placed[k] = Place(k, Len(ARTWORKS), radius)
  /\ \A n \in Totals : \A i, j \in 0 .. n - 1 :
       LET p == Place(i, n, radius)
           q == Place(j, n, radius)
           pn == Place((i + 1) % n, n, radius)
           qn == Place((j + 1) % n, n, radius)
       IN /\ i # j => p # q
          /\ p.y = HangHeight
          /\ Abs(Chord2(p, pn) - Chord2(q, qn)) <= Tolerance2
          /\ Abs(p.x * p.x + p.z * p.z - radius * radius * Scale * Scale)
               <= Tolerance2
  /\ Place(0, 6, 15) = [x |-> 0, y |-> HangHeight, z |-> 15 * Scale]
  /\ Place(3, 6, 15) = [x |-> 0, y |-> HangHeight, z |-> -15 * Scale]

\* the artworks hang and one of them has been highlighted since
C23_Witness ==
  /\ isLocked
  /\ hovered # {}
  /\ placed[0] # placed[1]

\* C24: a key-down of M flips isMuted.
C24_KeyMTogglesMute ==
  [][KeyDown("KeyM") => (isMuted' = ~isMuted)]_vars

\* C26: the Web Audio track and the HTML5 audio element are never both
\* started and not paused.
C26_OneBackendPlaying == ~(webPlaying /\ html5Playing)

\* while isMuted holds neither backend is started and not paused
MutedIsSilent == isMuted => ~webPlaying /\ ~html5Playing

\* C27: while isMuted holds neither backend is started and not paused, and
\* after a toggleMute the mute button reads Unmute exactly when isMuted
\* holds.
C27_MuteRespected ==
  /\ []MutedIsSilent
  /\ [][(\E allowed \in BOOLEAN : MuteClick(allowed))
          => ((muteLabel' = "Unmute") = isMuted')]_vars

=============================================================================
